---- MODULE Spec2Model ----
(***************************************************************************)
(* A model of xrays: the record-table builder (`compute`) and the two      *)
(* dashboards (`visualize` of the top-level module xrays, `create_app` of  *)
(* xrays.dashboard) whose callbacks aggregate the record table into the    *)
(* hotspot summary and the change-coupling table.                          *)
(*                                                                         *)
(* Strings are sequences of one-character strings, ordered by code point   *)
(* as Python orders str.  Real numbers are kept exact: an urgency value is *)
(* the pair of quotients it is computed from, (ind/max_ind) and            *)
(* (rev/max_rev), standing for (ind/max_ind) * sqrt(rev/max_rev); the      *)
(* float NaN that a 0/0 division yields is the value NaN.                  *)
(***************************************************************************)
EXTENDS Integers, Sequences, FiniteSets, TLC

VARIABLES
    parquet,          \* the persisted record table (hotspots.parquet), or NoFile
    data,             \* the record table the running dashboard holds in memory
    app,              \* which dashboard runs: "xrays" or "xrays.dashboard"
    corr_table_data,  \* create_app's closure variable (dashboard, line 136)
    requests,         \* the callback invocations in flight, oldest first
    served,           \* the invocations served so far, each with what it returned
    pc,               \* position of the `compute` command / acquire_base_data
    impl,             \* which acquire_base_data runs: "xrays" or "xrays.analysis"
    pattern,          \* the --file-pattern of the run
    files,            \* relevant_files_in_git_root's result still to process
    per_file_data,    \* the frames collected so far, concatenated
    faults            \* the failure conditions met so far during the build

vars == <<parquet, data, app, corr_table_data, requests, served,
          pc, impl, pattern, files, per_file_data, faults>>

buildVars == <<pc, impl, pattern, files, per_file_data, faults>>

(***************************************************************************)
(* Bounds of the model.                                                    *)
(***************************************************************************)
MaxRowsAnyOrder == 2  \* rows of a record table whose rows come in any order
MaxRows == 3          \* rows of a table laid out by file, hotspot specification
MaxRowsCoupling == 4  \* rows of a table laid out by file, coupling specification
MaxRowsPurity == 3    \* rows of a record table in the purity specification
MaxCutoff == 2        \* the cutoff values a callback is invoked with: 0..MaxCutoff
MaxLog == 2           \* commits in the `git log` output of one file

(***************************************************************************)
(* Strings.                                                                *)
(***************************************************************************)
Ord == [ch \in {"-", "a", "b", "c"} |->
          CASE ch = "-" -> 45 [] ch = "a" -> 97 [] ch = "b" -> 98 [] ch = "c" -> 99]

\* Python's s < t on str: the first differing character decides, a proper
\* prefix is smaller.
StrLess(s, t) ==
    \E k \in 1..Len(t) :
        /\ k - 1 <= Len(s)
        /\ \A i \in 1..(k - 1) : s[i] = t[i]
        /\ \/ k > Len(s)
           \/ Ord[s[k]] < Ord[t[k]]

\* re.search of a pattern without metacharacters: substring containment.
StrContains(s, pat) ==
    \E i \in 0..(Len(s) - Len(pat)) : SubSeq(s, i + 1, i + Len(pat)) = pat

\* re.fullmatch: ".*" matches every path, a literal pattern only itself.
MatchAll == <<".", "*">>
FullMatch(pat, s) == pat = MatchAll \/ pat = s

P_a == <<"a">>
P_ab == <<"a", "-", "b">>
P_bc == <<"b", "-", "c">>
P_c == <<"c">>
Paths == {P_a, P_ab, P_bc, P_c}

Commits == {"c1", "c2"}
\* Commit timestamps: c2 is the later commit.
DateOf == [c \in Commits |-> IF c = "c1" THEN 1 ELSE 2]

\* Snapshot metrics (lines_code, indentation) a record can carry.
Metrics == {<<0, 0>>, <<2, 1>>, <<1, 2>>}

Row(f, c, m) ==
    [file |-> f, commit |-> c, commit_date |-> DateOf[c],
     lines_code |-> m[1], indentation |-> m[2]]

RECURSIVE SeqOf(_)
SeqOf(S) == IF S = {} THEN <<>>
            ELSE LET x == CHOOSE y \in S : TRUE IN <<x>> \o SeqOf(S \ {x})

Max(S) == CHOOSE x \in S : \A y \in S : y <= x
Indices(s) == 1..Len(s)

\* hotspots.parquet before and after DataFrame.to_parquet
NoFile == [written |-> FALSE, table |-> <<>>]
FileOf(t) == [written |-> TRUE, table |-> t]

(***************************************************************************)
(* Floats.  A float column holds Num(n) or NaN; a comparison with NaN is   *)
(* false (IEEE 754), whatever the other side.                              *)
(***************************************************************************)
NaN == [kind |-> "nan", v |-> 0]
Num(n) == [kind |-> "num", v |-> n]
FloatGE(x, c) == x.kind = "num" /\ x.v >= c

\* x / y on non-negative integer columns: pandas yields NaN for 0/0 and
\* inf for x/0, and raises nothing.
Quot(x, y) ==
    IF y = 0
    THEN [kind |-> IF x = 0 THEN "nan" ELSE "inf", num |-> 0, den |-> 0]
    ELSE [kind |-> "num", num |-> x, den |-> y]

\* (ind / max_ind) * (rev / max_rev).pow(1/2): NaN as soon as one factor is.
urgency_of(ind, max_ind, rev, max_rev) ==
    LET a == Quot(ind, max_ind)
        b == Quot(rev, max_rev)
    IN  [kind |-> IF a.kind = "nan" \/ b.kind = "nan" THEN "nan"
                  ELSE IF a.kind = "inf" \/ b.kind = "inf" THEN "inf"
                  ELSE "num",
         ind_num |-> a.num, ind_den |-> a.den,
         rev_num |-> b.num, rev_den |-> b.den]

(***************************************************************************)
(* xrays.dashboard: the aggregations.                                      *)
(***************************************************************************)
\* data[data["file"].str.contains(file_regex)]
filter_data(d, file_regex) ==
    SelectSeq(d, LAMBDA r : StrContains(r.file, file_regex))

\* The keys of groupby("file"): the distinct files, sorted.
group_keys(d) == SortSeq(SeqOf({d[i].file : i \in Indices(d)}), StrLess)
group_of(d, f) == SelectSeq(d, LAMBDA r : r.file = f)

\* The aggregations "count", "last" and "first" of a group's column.
agg_count(g) == Len(g)
agg_last(g) == g[Len(g)]
agg_first(g) == g[1]

\* The maximum of a column; of an empty column it is NaN and nothing is
\* divided by it.
column_min(S) == IF S = {} THEN 0 ELSE CHOOSE x \in S : \A y \in S : x <= y
column_max(S) == IF S = {} THEN 0 ELSE Max(S)

with_urgency(agg) ==
    LET max_ind == column_max({agg[k].indentation : k \in Indices(agg)})
        max_rev == column_max({agg[k].revisions : k \in Indices(agg)})
    IN  [k \in Indices(agg) |->
            [file |-> agg[k].file, revisions |-> agg[k].revisions,
             lines_code |-> agg[k].lines_code,
             indentation |-> agg[k].indentation,
             urgency |-> urgency_of(agg[k].indentation, max_ind,
                                    agg[k].revisions, max_rev)]]

\* As hotspots_figure, were the cutoff applied before the urgency is computed.
hotspots_figure_cutoff_first(d, cutoff) ==
    LET keys == group_keys(d)
        agg == [k \in Indices(keys) |->
                  LET g == group_of(d, keys[k])
                  IN  [file |-> keys[k], revisions |-> agg_count(g),
                       lines_code |-> agg_last(g).lines_code,
                       indentation |-> agg_last(g).indentation]]
    IN  with_urgency(SelectSeq(agg, LAMBDA r : r.revisions >= cutoff))

\* hotspots_figure of xrays.dashboard; the figure is its plotted rows.
hotspots_figure(d, cutoff) ==
    LET keys == group_keys(d)
        agg == [k \in Indices(keys) |->
                  LET g == group_of(d, keys[k])
                  IN  [file |-> keys[k], revisions |-> agg_count(g),
                       lines_code |-> agg_last(g).lines_code,
                       indentation |-> agg_last(g).indentation]]
    IN  SelectSeq(with_urgency(agg), LAMBDA r : r.revisions >= cutoff)

\* hotspots_figure of the top-level module: "first" instead of "last".
xrays_hotspots_figure(d, cutoff) ==
    LET keys == group_keys(d)
        agg == [k \in Indices(keys) |->
                  LET g == group_of(d, keys[k])
                  IN  [file |-> keys[k], revisions |-> agg_count(g),
                       lines_code |-> agg_first(g).lines_code,
                       indentation |-> agg_first(g).indentation]]
    IN  SelectSeq(with_urgency(agg), LAMBDA r : r.revisions >= cutoff)

\* data.merge(data, on="commit").groupby(["file_x", "file_y"])["commit"].count():
\* the number of pairs of rows (one of file x, one of file y) of one commit.
merge_count(d, x, y) ==
    Cardinality({p \in Indices(d) \X Indices(d) :
                    /\ d[p[1]].commit = d[p[2]].commit
                    /\ d[p[1]].file = x
                    /\ d[p[2]].file = y})

PairLess(p, q) == StrLess(p[1], q[1]) \/ (p[1] = q[1] /\ StrLess(p[2], q[2]))

\* The grouped self-join, sorted by (file_x, file_y).
merge_groups(d) ==
    LET fs == {d[i].file : i \in Indices(d)}
    IN  SortSeq(SeqOf({p \in fs \X fs : merge_count(d, p[1], p[2]) > 0}),
                PairLess)

compute_correlations(d, cutoff) ==
    LET groups == merge_groups(d)
        correlation == [k \in Indices(groups) |->
            [file_x |-> groups[k][1], file_y |-> groups[k][2],
             commits |-> IF groups[k][1] = groups[k][2]
                         THEN NaN    \* kill diagonal
                         ELSE Num(merge_count(d, groups[k][1], groups[k][2]))]]
    IN  SelectSeq(correlation, LAMBDA r : FloatGE(r.commits, cutoff))

\* natsorted(correlation["file_x"].unique()); the paths hold no digits, so
\* the natural order is the order of str.
sort_order(rows) == SortSeq(SeqOf({rows[k].file_x : k \in Indices(rows)}), StrLess)

\* correlation_figure of xrays.dashboard: the heatmap's rows and axis order.
correlation_figure(d, cutoff) ==
    LET correlation == compute_correlations(d, cutoff)
    IN  [rows |-> correlation, category_orders |-> sort_order(correlation)]

\* correlation_figure of the top-level module: the diagonal is set to 0.
xrays_correlation_figure(d, cutoff) ==
    LET groups == merge_groups(d)
        all == [k \in Indices(groups) |->
            [file_x |-> groups[k][1], file_y |-> groups[k][2],
             commit |-> IF groups[k][1] = groups[k][2]
                        THEN 0    \* kill diagonal
                        ELSE merge_count(d, groups[k][1], groups[k][2])]]
        correlation == SelectSeq(all, LAMBDA r : r.commit >= cutoff)
    IN  [rows |-> correlation, category_orders |-> sort_order(correlation)]

\* "-".join(sorted(x)) of a row's (file_x, file_y)
duplicates_key(x, y) ==
    IF StrLess(y, x) THEN y \o <<"-">> \o x ELSE x \o <<"-">> \o y

\* drop_duplicates(subset=["duplicates"]): the first row of each key stays.
drop_duplicates(rows) ==
    LET kept == {k \in Indices(rows) :
                    \A j \in 1..(k - 1) : rows[j].duplicates # rows[k].duplicates}
        IndexLess(i, j) == i < j
        order == SortSeq(SeqOf(kept), IndexLess)
    IN  [k \in Indices(order) |-> rows[order[k]]]

table_before_ties_ascending(r, s) ==
    \/ r.commits.v > s.commits.v
    \/ r.commits.v = s.commits.v /\ StrLess(r.file_x, s.file_x)
    \/ r.commits.v = s.commits.v /\ r.file_x = s.file_x
         /\ StrLess(r.file_y, s.file_y)

\* sort_values(["commits", "file_x", "file_y"], ascending=False): r before s
table_before(r, s) ==
    \/ r.commits.v > s.commits.v
    \/ r.commits.v = s.commits.v /\ StrLess(s.file_x, r.file_x)
    \/ r.commits.v = s.commits.v /\ r.file_x = s.file_x
         /\ StrLess(s.file_y, r.file_y)

\* The "duplicates" column is added to, and deleted from, the frame that
\* compute_correlations returned, which is a frame of its own.
correlation_table_data(d, cutoff) ==
    LET frame == compute_correlations(d, cutoff)
        keyed == [k \in Indices(frame) |->
                    [file_x |-> frame[k].file_x, file_y |-> frame[k].file_y,
                     commits |-> frame[k].commits,
                     duplicates |-> duplicates_key(frame[k].file_x,
                                                   frame[k].file_y)]]
        deduped == drop_duplicates(keyed)
        result == [k \in Indices(deduped) |->
                    [file_x |-> deduped[k].file_x, file_y |-> deduped[k].file_y,
                     commits |-> deduped[k].commits]]
    IN  SortSeq(result, table_before)

(***************************************************************************)
(* The dashboards' callbacks.  A callback is an HTTP endpoint: it is       *)
(* invoked with whatever filter and cutoff the client sends.  `requests`   *)
(* holds the invocations the clients have sent and the server has not yet  *)
(* served; a callback serves the oldest one when it is its own.            *)
(***************************************************************************)
Apps == {"xrays", "xrays.dashboard"}
Regexes == {<<>>, <<"a">>}
Cutoffs == 0..MaxCutoff
\* The default `cutoff` of the aggregations, and create_app's own cutoff.
DefaultCutoff == 10
CreateAppCutoff == 10
tab_file_hotspots_id == "file-hotspots"
tab_file_change_coupling_id == "file-change-coupling"
Tabs == {tab_file_hotspots_id, tab_file_change_coupling_id}

Request(cb, file_regex, cutoff, tab) ==
    [cb |-> cb, file_regex |-> file_regex, cutoff |-> cutoff, tab |-> tab]

\* The invocations a client of the application can send.
RequestsOf(a) ==
    {Request(cb, re, c, "") :
        cb \in {"update_hotspot_figure", "update_correlation_figure"},
        re \in Regexes, c \in Cutoffs}
    \cup (IF a = "xrays.dashboard"
          THEN {Request("update_correlation_table", re, c, "") :
                    re \in Regexes, c \in Cutoffs}
               \cup {Request("render_tabs", <<>>, 0, tab) : tab \in Tabs}
          ELSE {})

\* The oldest request is answered with `out`; nothing else is written.
Returns(out) ==
    /\ served' = Append(served, [request |-> Head(requests), out |-> out])
    /\ requests' = Tail(requests)
    /\ UNCHANGED <<parquet, data, app, corr_table_data>>
    /\ UNCHANGED buildVars

Pending(a, cb) ==
    /\ app = a
    /\ requests # <<>>
    /\ Head(requests).cb = cb

\* tab_render_mapping[tab](data)
tab_render_mapping(tab, d, table) ==
    IF tab = tab_file_hotspots_id
    THEN <<[id |-> "file_hotspots", figure |-> hotspots_figure(d, DefaultCutoff)]>>
    ELSE <<[id |-> "correlations",
            figure |-> correlation_figure(d, DefaultCutoff)],
           [id |-> "correlation_table", data |-> table]>>

render_tabs ==
    /\ Pending("xrays.dashboard", "render_tabs")
    /\ Returns(tab_render_mapping(Head(requests).tab, data, corr_table_data))

update_hotspot_figure ==
    /\ Pending("xrays.dashboard", "update_hotspot_figure")
    /\ LET file_regex == Head(requests).file_regex
           cutoff == Head(requests).cutoff
       IN  Returns(hotspots_figure(filter_data(data, file_regex), cutoff))

update_correlation_figure ==
    /\ Pending("xrays.dashboard", "update_correlation_figure")
    /\ LET file_regex == Head(requests).file_regex
           cutoff == Head(requests).cutoff
       IN  Returns(correlation_figure(filter_data(data, file_regex), cutoff))

\* As update_correlation_table, were the filter applied to the shared frame.
update_correlation_table_in_place ==
    /\ Pending("xrays.dashboard", "update_correlation_table")
    /\ LET file_regex == Head(requests).file_regex
           cutoff == Head(requests).cutoff
       IN  /\ data' = filter_data(data, file_regex)
           /\ served' = Append(served,
                  [request |-> Head(requests),
                   out |-> correlation_table_data(data', cutoff)])
    /\ requests' = Tail(requests)
    /\ UNCHANGED <<parquet, app, corr_table_data>>
    /\ UNCHANGED buildVars

update_correlation_table ==
    /\ Pending("xrays.dashboard", "update_correlation_table")
    /\ LET file_regex == Head(requests).file_regex
           cutoff == Head(requests).cutoff
       IN  Returns(correlation_table_data(filter_data(data, file_regex), cutoff))

xrays_update_hotspot_figure ==
    /\ Pending("xrays", "update_hotspot_figure")
    /\ LET file_regex == Head(requests).file_regex
           cutoff == Head(requests).cutoff
       IN  Returns(xrays_hotspots_figure(filter_data(data, file_regex), cutoff))

xrays_update_correlation_figure ==
    /\ Pending("xrays", "update_correlation_figure")
    /\ LET file_regex == Head(requests).file_regex
           cutoff == Head(requests).cutoff
       IN  Returns(xrays_correlation_figure(filter_data(data, file_regex), cutoff))

NextDash ==
    \/ render_tabs
    \/ update_hotspot_figure
    \/ update_correlation_figure
    \/ update_correlation_table
    \/ xrays_update_hotspot_figure
    \/ xrays_update_correlation_figure

(***************************************************************************)
(* Record tables the dashboards are started on.  `compute` lays a table    *)
(* out by file: one block of records per file, the files in the order of   *)
(* `git ls-files` (ascending paths).  Short tables come in every order.    *)
(***************************************************************************)
TablesOver(R, n) == UNION {[1..k -> R] : k \in 0..n}

LaidOutByFile(t) ==
    \A i \in Indices(t), j \in Indices(t) :
        i < j => ~StrLess(t[j].file, t[i].file)

Tables(R, n) ==
    TablesOver(R, MaxRowsAnyOrder) \cup {t \in TablesOver(R, n) : LaidOutByFile(t)}

HotspotRows == {Row(f, c, m) : f \in {P_a, P_c}, c \in Commits, m \in Metrics}
CouplingRows == {Row(f, c, <<2, 1>>) : f \in Paths, c \in Commits}
PurityRows == {Row(P_a, "c1", <<2, 1>>), Row(P_ab, "c1", <<1, 2>>),
               Row(P_c, "c1", <<0, 0>>)}

BuildIdle ==
    /\ pc = "idle"
    /\ impl = "xrays"
    /\ pattern = MatchAll
    /\ files = <<>>
    /\ per_file_data = <<>>
    /\ faults = {}

\* visualize / create_app on a persisted table: data = pd.read_parquet(...)
InitDash(T) ==
    /\ parquet \in {FileOf(t) : t \in T}
    /\ data = parquet.table
    /\ app \in Apps
    /\ corr_table_data = IF app = "xrays.dashboard"
                         THEN correlation_table_data(data, CreateAppCutoff)
                         ELSE <<>>
    /\ served = <<>>
    /\ BuildIdle

\* One invocation on each table.
InitHotspots ==
    /\ InitDash(Tables(HotspotRows, MaxRows))
    /\ \E r \in RequestsOf(app) : requests = <<r>>
InitCoupling ==
    /\ InitDash(Tables(CouplingRows, MaxRowsCoupling))
    /\ \E r \in RequestsOf(app) : requests = <<r>>
\* An invocation, any other one, and the first one again.
InitPurity ==
    /\ InitDash(TablesOver(PurityRows, MaxRowsPurity))
    /\ \E r \in RequestsOf(app), q \in RequestsOf(app) : requests = <<r, q, r>>

SpecHotspots == InitHotspots /\ [][NextDash]_vars
SpecCoupling == InitCoupling /\ [][NextDash]_vars
SpecPurity == InitPurity /\ [][NextDash]_vars

\* The hotspot callback is invoked with cutoff 0 and then, with the same
\* filter, with any cutoff.
InitCutoff ==
    /\ InitDash(Tables(HotspotRows, MaxRows))
    /\ \E re \in Regexes, c \in Cutoffs :
          requests = <<Request("update_hotspot_figure", re, 0, ""),
                       Request("update_hotspot_figure", re, c, "")>>
NextCutoff ==
    \/ update_hotspot_figure
    \/ xrays_update_hotspot_figure
SpecCutoff == InitCutoff /\ [][NextCutoff]_vars

(***************************************************************************)
(* The builder: `compute` of the top-level module, which persists what its *)
(* acquire_base_data returns, and acquire_base_data of xrays.analysis,     *)
(* which returns to its caller.  The external tools (git, cloc) answer as  *)
(* the environment decides: each answer is drawn when the tool is run.     *)
(* A log line is a string whose commit hash and timestamps are each        *)
(* abbreviated to one symbol.                                              *)
(***************************************************************************)
Impls == {"xrays", "xrays.analysis"}
Patterns == {MatchAll, P_a, P_ab}
Tracked == {<<>>, <<P_a, P_c>>}
StampOf == [c \in Commits |-> IF c = "c1" THEN "t1" ELSE "t2"]
\* pd.to_datetime
to_datetime(field) == IF field = <<"t1">> THEN 1 ELSE 2

\* "%H %aI %cI" of a commit, and lines of two and of four fields
LogLine(c) == <<c, " ", StampOf[c], " ", StampOf[c]>>
ShortLine(c) == <<c, " ", StampOf[c]>>
LongLine(c) == <<c, " ", StampOf[c], " ", StampOf[c], " ", "t1">>
LogLines == {LogLine(c) : c \in Commits} \cup {ShortLine("c1"), LongLine("c1")}
Histories == TablesOver(LogLines, MaxLog)
BuilderMetrics == {<<0, 0>>, <<2, 1>>}

\* str.split(" ")
RECURSIVE split(_)
split(s) ==
    IF \A i \in Indices(s) : s[i] # " "
    THEN <<s>>
    ELSE LET k == CHOOSE i \in Indices(s) :
                    s[i] = " " /\ \A j \in 1..(i - 1) : s[j] # " "
         IN  <<SubSeq(s, 1, k - 1)>> \o split(SubSeq(s, k + 1, Len(s)))

\* What `git log --format=... --name-only` prints for a history: per commit
\* the data line, the file's name and a blank line, the last blank left out.
RECURSIVE name_only_lines(_, _)
name_only_lines(history, file) ==
    IF history = <<>> THEN <<>>
    ELSE <<Head(history), file>>
         \o (IF Len(history) = 1 THEN <<>> ELSE <<<<>>>>)
         \o name_only_lines(Tail(history), file)

\* [log_out[i : i + 3] for i in range(0, len(log_out), 3)]
chunks(log_out) ==
    [k \in 1..((Len(log_out) + 2) \div 3) |->
        SubSeq(log_out, 3 * k - 2,
               IF 3 * k <= Len(log_out) THEN 3 * k ELSE Len(log_out))]

Raised == [raised |-> TRUE, frame |-> <<>>]
Frame(rows) == [raised |-> FALSE, frame |-> rows]

\* file_revision_information of the top-level module, then the file's
\* metrics: parts[0], parts[1], parts[2] of every line, so a line of fewer
\* than three fields raises IndexError and further fields are ignored.
xrays_acquire_file_base_data(file, git_ok, history, cloc_ok, m) ==
    IF ~git_ok THEN Raised
    ELSE IF \E k \in Indices(history) : Len(split(history[k])) < 3 THEN Raised
    ELSE IF ~cloc_ok THEN Raised
    ELSE Frame([k \in Indices(history) |->
                  LET parts == split(history[k])
                  IN  [file |-> file, commit |-> parts[1],
                       author_date |-> to_datetime(parts[2]),
                       commit_date |-> to_datetime(parts[3]),
                       indentation |-> m[2], lines_code |-> m[1]]])

\* One chunk of xrays.analysis's loop unpacks into three lines, and its data
\* line into three fields; anything else raises ValueError.
analysis_line_ok(lines) == Len(lines) = 3 /\ Len(split(lines[1])) = 3

\* file_revision_information of xrays.analysis: the chunks in order, each
\* unpacked, split and measured by cloc.
analysis_acquire_file_base_data(file, git_ok, history, cloc_ok, m) ==
    LET log_out == Append(name_only_lines(history, file), <<>>)
        cs == chunks(log_out)
    IN  IF ~git_ok THEN Raised
        ELSE IF \E k \in Indices(cs) : ~analysis_line_ok(cs[k]) THEN Raised
        ELSE IF ~cloc_ok THEN Raised
        ELSE Frame([k \in Indices(cs) |->
                      LET parts == split(cs[k][1])
                      IN  [file |-> file, commit_filename |-> cs[k][2],
                           commit |-> parts[1],
                           author_date |-> to_datetime(parts[2]),
                           commit_date |-> to_datetime(parts[3]),
                           indentation |-> m[2], lines_code |-> m[1]]])

\* The failure conditions a file's processing meets: a log line that does
\* not split into exactly three fields, a tool that exits with an error.
\* The top-level module splits every line before it runs cloc on the file;
\* xrays.analysis takes the commits in order, and runs cloc on a commit's
\* snapshot once its line is split.
FaultsOf(i, git_ok, history, cloc_ok) ==
    LET bad == {k \in Indices(history) : Len(split(history[k])) # 3}
        malformed == IF bad # {} THEN {"malformed_line"} ELSE {}
    IN  IF ~git_ok THEN {"tool_error"}
        ELSE IF i = "xrays"
        THEN malformed
             \cup (IF ~cloc_ok /\ \A k \in bad : Len(split(history[k])) > 3
                   THEN {"tool_error"} ELSE {})
        ELSE IF history = <<>> THEN {}
        ELSE IF 1 \in bad THEN {"malformed_line"}
        ELSE IF ~cloc_ok THEN {"tool_error"}
        ELSE malformed

Stopped(p) ==
    /\ pc' = p
    /\ UNCHANGED <<parquet, impl, pattern, files, per_file_data>>
    /\ UNCHANGED <<data, app, corr_table_data, requests, served>>

\* `git ls-files`, filtered by pattern.fullmatch
relevant_files_in_git_root ==
    /\ pc = "start"
    /\ \E git_ok \in BOOLEAN, tracked \in Tracked :
          IF ~git_ok
          THEN /\ faults' = faults \cup {"tool_error"}
               /\ Stopped("raised")
          ELSE LET kept == SelectSeq(tracked, LAMBDA f : FullMatch(pattern, f))
               IN  /\ files' = kept
                   /\ faults' = faults \cup
                         (IF kept = <<>> THEN {"no_match"} ELSE {})
                   /\ pc' = "loop"
                   /\ UNCHANGED <<parquet, impl, pattern, per_file_data>>
                   /\ UNCHANGED <<data, app, corr_table_data, requests, served>>

\* One turn of acquire_base_data's loop.
acquire_file_base_data ==
    /\ pc = "loop"
    /\ files # <<>>
    /\ \E git_ok \in BOOLEAN, history \in Histories, cloc_ok \in BOOLEAN,
          m \in BuilderMetrics :
          LET got == IF impl = "xrays"
                     THEN xrays_acquire_file_base_data(Head(files), git_ok,
                                                       history, cloc_ok, m)
                     ELSE analysis_acquire_file_base_data(Head(files), git_ok,
                                                          history, cloc_ok, m)
          IN  /\ faults' = faults \cup FaultsOf(impl, git_ok, history, cloc_ok)
              /\ IF got.raised
                 THEN Stopped("raised")
                 ELSE /\ per_file_data' = Append(per_file_data, got.frame)
                      /\ files' = Tail(files)
                      /\ UNCHANGED <<pc, parquet, impl, pattern>>
                      /\ UNCHANGED <<data, app, corr_table_data, requests,
                                     served>>

\* The end of acquire_base_data: xrays.analysis raises ValueError on an
\* empty list, and so does pd.concat in the top-level module.
concat ==
    /\ pc = "loop"
    /\ files = <<>>
    /\ UNCHANGED faults
    /\ Stopped(IF per_file_data = <<>> THEN "raised" ELSE "returned")

RECURSIVE pd_concat(_)
pd_concat(frames) ==
    IF frames = <<>> THEN <<>> ELSE Head(frames) \o pd_concat(Tail(frames))

\* compute: data.to_parquet(hotspot_data_file(data_dir))
to_parquet ==
    /\ pc = "returned"
    /\ impl = "xrays"
    /\ parquet' = FileOf(pd_concat(per_file_data))
    /\ pc' = "done"
    /\ UNCHANGED <<impl, pattern, files, per_file_data, faults>>
    /\ UNCHANGED <<data, app, corr_table_data, requests, served>>

NextBuild ==
    \/ relevant_files_in_git_root
    \/ acquire_file_base_data
    \/ concat
    \/ to_parquet

InitBuild ==
    /\ pc = "start"
    /\ impl \in Impls
    /\ pattern \in Patterns
    /\ files = <<>>
    /\ per_file_data = <<>>
    /\ faults = {}
    /\ parquet = NoFile
    /\ data = <<>>
    /\ app = "xrays"
    /\ corr_table_data = <<>>
    /\ requests = <<>>
    /\ served = <<>>

SpecBuild == InitBuild /\ [][NextBuild]_vars

(***************************************************************************)
(* What the claims speak of, stated on the record table itself.            *)
(***************************************************************************)
Rows(seq) == {seq[k] : k \in Indices(seq)}
Calls(cb) == {served[i] : i \in {j \in Indices(served) : served[j].request.cb = cb}}

\* The filtered records, and those of one file.
FilteredIdx(re) == {i \in Indices(data) : StrContains(data[i].file, re)}
FileIdx(re, f) == {i \in FilteredIdx(re) : data[i].file = f}
FilteredFiles(re) == {data[i].file : i \in FilteredIdx(re)}
DistinctCommits(re, f) == {data[i].commit : i \in FileIdx(re, f)}
SharedCommits(re, x, y) == DistinctCommits(re, x) \cap DistinctCommits(re, y)

\* The coupling rows a served invocation returned, whichever callback.
CouplingOutputs ==
    {[request |-> c.request, rows |-> c.out.rows] :
        c \in Calls("update_correlation_figure")}
    \cup {[request |-> c.request, rows |-> c.out] :
            c \in Calls("update_correlation_table")}

\* The square of an urgency value, as a fraction.
UrgencySqNum(u) == u.ind_num * u.ind_num * u.rev_num
UrgencySqDen(u) == u.ind_den * u.ind_den * u.rev_den

\* The record a file's summary row is taken from: the last of the file's
\* filtered records in xrays.dashboard, the first in the top-level module.
Representative(re, f) ==
    LET idx == FileIdx(re, f)
    IN  IF app = "xrays.dashboard"
        THEN data[CHOOSE i \in idx : \A j \in idx : j <= i]
        ELSE data[CHOOSE i \in idx : \A j \in idx : i <= j]
MaxIndentation(re) ==
    Max({Representative(re, f).indentation : f \in FilteredFiles(re)})
MaxRevisions(re) ==
    Max({Cardinality(FileIdx(re, f)) : f \in FilteredFiles(re)})

(***************************************************************************)
(* C1.  The `revisions` value hotspots_figure computes for a file is the   *)
(* number of distinct commit identifiers among the file's filtered         *)
(* records, also when several records share one (file, commit).            *)
(***************************************************************************)
C1_RevisionsCountDistinctCommits ==
    \A c \in Calls("update_hotspot_figure") : \A r \in Rows(c.out) :
        r.revisions = Cardinality(DistinctCommits(c.request.file_regex, r.file))

(***************************************************************************)
(* C2.  The `commits` value compute_correlations reports for two distinct  *)
(* files x, y is the number of distinct commits that touch both; duplicate *)
(* records do not raise it.                                                *)
(***************************************************************************)
C2_CommitsCountSharedCommits ==
    app = "xrays.dashboard" =>
        \A c \in CouplingOutputs : \A r \in Rows(c.rows) :
            r.file_x # r.file_y =>
                /\ r.commits.kind = "num"
                /\ r.commits.v = Cardinality(SharedCommits(c.request.file_regex,
                                                           r.file_x, r.file_y))

(***************************************************************************)
(* C3.  For every cutoff >= 0, cutoff 0 included, no coupling row that     *)
(* survives the cutoff has file_x = file_y, in compute_correlations of     *)
(* xrays.dashboard and in correlation_figure of the top-level module.      *)
(***************************************************************************)
C3_NoSelfPairs ==
    \A c \in CouplingOutputs : \A r \in Rows(c.rows) : r.file_x # r.file_y

(***************************************************************************)
(* C4.  For every pair of distinct files that share at least one commit    *)
(* and at least `cutoff` commits, correlation_table_data returns exactly   *)
(* one row, (x, y) or (y, x), also for paths that contain '-'.             *)
(***************************************************************************)
C4_ExactlyOneRowPerPair ==
    \A c \in Calls("update_correlation_table") :
        \A x \in FilteredFiles(c.request.file_regex),
           y \in FilteredFiles(c.request.file_regex) :
            LET shared == Cardinality(SharedCommits(c.request.file_regex, x, y))
            IN  (x # y /\ shared >= 1 /\ shared >= c.request.cutoff) =>
                    Cardinality({k \in Indices(c.out) :
                        {c.out[k].file_x, c.out[k].file_y} = {x, y}}) = 1

(***************************************************************************)
(* C5.  A summary row's lines_code and indentation are those of a record   *)
(* of the file with the greatest commit_date, whatever the order of the    *)
(* file's records in the table.                                            *)
(***************************************************************************)
C5_MostRecentSnapshot ==
    \A c \in Calls("update_hotspot_figure") : \A r \in Rows(c.out) :
        LET idx == FileIdx(c.request.file_regex, r.file)
        IN  \E i \in idx :
                /\ \A j \in idx : data[j].commit_date <= data[i].commit_date
                /\ r.lines_code = data[i].lines_code
                /\ r.indentation = data[i].indentation

(***************************************************************************)
(* C6.  When every filtered record has indentation 0 (so the maximum       *)
(* indentation, a denominator of the urgency formula, is 0), every file's  *)
(* urgency is the number 0.                                                *)
(***************************************************************************)
C6_ZeroDenominatorGivesZero ==
    \A c \in Calls("update_hotspot_figure") :
        (\A i \in FilteredIdx(c.request.file_regex) : data[i].indentation = 0)
            => \A r \in Rows(c.out) :
                  /\ r.urgency.kind = "num"
                  /\ UrgencySqNum(r.urgency) = 0

(***************************************************************************)
(* C7.  The rows of correlation_table_data are ordered by `commits`        *)
(* descending, rows of equal `commits` by (file_x, file_y) ascending.      *)
(***************************************************************************)
C7_TiesAscending ==
    \A c \in Calls("update_correlation_table") :
        \A k \in 1..(Len(c.out) - 1) :
            \/ c.out[k].commits.v > c.out[k + 1].commits.v
            \/ /\ c.out[k].commits.v = c.out[k + 1].commits.v
               /\ PairLess(<<c.out[k].file_x, c.out[k].file_y>>,
                           <<c.out[k + 1].file_x, c.out[k + 1].file_y>>)

\* C7 as amended: ordered by `commits` descending, rows of equal `commits`
\* by (file_x, file_y) descending.
C7_TiesDescending ==
    \A c \in Calls("update_correlation_table") :
        \A k \in 1..(Len(c.out) - 1) :
            /\ c.out[k].commits.kind = "num"
            /\ c.out[k + 1].commits.kind = "num"
            /\ \/ c.out[k].commits.v > c.out[k + 1].commits.v
               \/ /\ c.out[k].commits.v = c.out[k + 1].commits.v
                  /\ PairLess(<<c.out[k + 1].file_x, c.out[k + 1].file_y>>,
                              <<c.out[k].file_x, c.out[k].file_y>>)

\* A table came back that holds two rows of equal `commits` and a row of
\* fewer.
C7_Witness ==
    \E c \in Calls("update_correlation_table") :
        /\ \E k \in 1..(Len(c.out) - 1) :
              c.out[k].commits.v = c.out[k + 1].commits.v
        /\ \E k \in 1..(Len(c.out) - 1) :
              c.out[k].commits.v > c.out[k + 1].commits.v

(***************************************************************************)
(* C8.  Whenever the build fails (no tracked file fully matches the        *)
(* pattern, a tool exits with an error, or a log line does not split into  *)
(* exactly three fields), acquire_base_data does not return and `compute`  *)
(* writes no record table.                                                 *)
(***************************************************************************)
C8_FailedBuildWritesNothing ==
    faults # {} => /\ pc \notin {"returned", "done"}
                   /\ ~parquet.written

(***************************************************************************)
(* C9.  The callbacks leave the shared record table as it was loaded, and  *)
(* two invocations with the same arguments return the same output,         *)
(* whatever was invoked in between.                                        *)
(***************************************************************************)
C9_CallbacksPure ==
    /\ data = parquet.table
    /\ \A i \in Indices(served), j \in Indices(served) :
          served[i].request = served[j].request
              => served[i].out = served[j].out

\* A table invocation, a different invocation, and the first one again,
\* all served, the table invocation having filtered rows away and returned
\* a row.
C9_Witness ==
    /\ Len(served) = 3
    /\ served[1].request.cb = "update_correlation_table"
    /\ served[1].request.file_regex = <<"a">>
    /\ served[2].request.file_regex = <<>>
    /\ served[3].request = served[1].request
    /\ Len(served[1].out) >= 1
    /\ Len(filter_data(data, <<"a">>)) < Len(data)

(***************************************************************************)
(* C10.  With non-negative indentations and a file of positive             *)
(* indentation in the filtered set, every urgency lies in [0, 1], and it   *)
(* is 1 only for a file that has both the maximum indentation and the      *)
(* maximum revisions of the filtered set.                                  *)
(***************************************************************************)
C10_UrgencyBounded ==
    \A c \in Calls("update_hotspot_figure") :
        LET re == c.request.file_regex
        IN  (FilteredFiles(re) # {} /\ MaxIndentation(re) > 0) =>
                \A r \in Rows(c.out) :
                    /\ r.urgency.kind = "num"
                    /\ UrgencySqDen(r.urgency) > 0
                    /\ 0 <= UrgencySqNum(r.urgency)
                    /\ UrgencySqNum(r.urgency) <= UrgencySqDen(r.urgency)
                    /\ UrgencySqNum(r.urgency) = UrgencySqDen(r.urgency)
                          => /\ r.indentation = MaxIndentation(re)
                             /\ r.revisions = MaxRevisions(re)

\* One file has the greatest indentation, another the most revisions, and
\* neither reaches 1; both are above 0.
C10_Witness ==
    \E c \in Calls("update_hotspot_figure") :
        /\ Len(c.out) = 2
        /\ c.out[1].indentation > c.out[2].indentation
        /\ c.out[1].revisions < c.out[2].revisions
        /\ \A r \in Rows(c.out) :
              /\ r.urgency.kind = "num"
              /\ 0 < UrgencySqNum(r.urgency)
              /\ UrgencySqNum(r.urgency) < UrgencySqDen(r.urgency)

(***************************************************************************)
(* C11.  The revision cutoff only removes rows and never changes a         *)
(* surviving row: the hotspot summary at cutoff c is the summary at cutoff *)
(* 0 of the same table and filter, restricted to the files with            *)
(* revisions >= c, with the same urgency values, because the urgency       *)
(* maxima are taken over the filtered set before the cutoff is applied.    *)
(***************************************************************************)
C11_CutoffOnlyRemovesRows ==
    \A p \in Calls("update_hotspot_figure"),
       q \in Calls("update_hotspot_figure") :
        (p.request.cutoff = 0 /\ p.request.file_regex = q.request.file_regex)
            => q.out = SelectSeq(p.out,
                                 LAMBDA r : r.revisions >= q.request.cutoff)

\* A positive cutoff removes the file that holds the greatest indentation
\* and keeps another one, whose urgency stays below 1.
C11_Witness ==
    \E p \in Calls("update_hotspot_figure"),
       q \in Calls("update_hotspot_figure") :
        /\ p.request.cutoff = 0
        /\ q.request.cutoff > 0
        /\ p.request.file_regex = q.request.file_regex
        /\ Len(q.out) = 1
        /\ \E r \in Rows(p.out) :
              /\ r.revisions < q.request.cutoff
              /\ r.indentation > q.out[1].indentation
        /\ q.out[1].urgency.kind = "num"
        /\ 0 < UrgencySqNum(q.out[1].urgency)
        /\ UrgencySqNum(q.out[1].urgency) < UrgencySqDen(q.out[1].urgency)

====
